---- MODULE Spec2Model ----
(***************************************************************************)
(* A model of the if-jsx TypeScript transformer (src/src/transform.ts).    *)
(* The input is one parsed source file; the transformer walks it with      *)
(* `visitor`, replaces every <If> element by a ternary inside a JSX        *)
(* expression, deletes the <Else> elements and the library's import.       *)
(*                                                                         *)
(* The syntax tree is kept flat, in pre-order: node i has parent[i] < i    *)
(* (0 is the source file), and the children of a node are its nodes in     *)
(* increasing order.  The host parser builds it node by node (ParseNode),  *)
(* then Transform starts the pass.  The recursion of ts.visitEachChild is  *)
(* an explicit stack of visitor frames.                                    *)
(***************************************************************************)
EXTENDS Naturals, Sequences, FiniteSets, TLC

VARIABLES
    tree,       \* the parsed source file the pass runs on
    stack,      \* the visitor calls in progress, innermost last
    status,     \* "parsing", "running", "unwinding" (an error propagates), "done", "error"
    err,        \* the error thrown: its message, and the (file, node) notes appended to it
    returned,   \* what visitor returned for each parsed node it has finished
    output,     \* the statements of the transformed source file
    pass,       \* 1, or 2 when the pass runs again on its own output
    first       \* the output of pass 1, kept during pass 2

vars == <<tree, stack, status, err, returned, output, pass, first>>

(***************************************************************************)
(* Bounds of the input space.                                              *)
(***************************************************************************)
MaxNodes == 4       \* nodes of an input tree built of the plain nodes
MaxAttrs == 2       \* attributes of an <If> that is not plain
MaxAttrNodes == 2   \* nodes of an input tree that holds a node that is not plain

(***************************************************************************)
(* Syntax nodes.                                                           *)
(***************************************************************************)
jsxParents == {"JsxElement", "JsxFragment"}

Attr(n, i, e) == [name |-> n, init |-> i, expr |-> e]

Node(k, n, x, a) == [kind |-> k, name |-> n, text |-> x, attrs |-> a]

\* The expression of an attribute is an identifier ("a", "b") or, for "jsx",
\* the JSX node that follows the element in pre-order.
HasJsx(nd) == \E i \in 1..Len(nd.attrs) : nd.attrs[i].expr = "jsx"

PlainCondition == Attr("condition", "JsxExpression", "a")

AttrValues ==
    { PlainCondition,
      Attr("condition", "JsxExpression", "b"),
      Attr("condition", "StringLiteral", ""),
      Attr("condition", "undefined", ""),
      Attr("title", "JsxExpression", "a") }

RECURSIVE AttrSeqs(_)
AttrSeqs(k) ==
    IF k = 0 THEN {<<>>}
    ELSE LET S == AttrSeqs(k - 1)
         IN  S \cup { Append(s, a) : s \in {x \in S : Len(x) = k - 1},
                                     a \in AttrValues }

AttrLists == AttrSeqs(MaxAttrs) \cup {<<Attr("condition", "JsxExpression", "jsx")>>}

IfNode(a) == Node("JsxElement", "If", <<>>, a)
ElseNode == Node("JsxElement", "Else", <<>>, <<>>)
DivNode == Node("JsxElement", "div", <<>>, <<>>)
DivJsxNode == Node("JsxElement", "div", <<>>, <<Attr("title", "JsxExpression", "jsx")>>)
FragmentNode == Node("JsxFragment", "", <<>>, <<>>)
TextNodes == { Node("JsxText", "", <<" ">>, <<>>),
               Node("JsxText", "", <<" ", "x">>, <<>>) }
ImportNodes == { Node("ImportDeclaration", "jsx-conditionals", <<>>, <<>>),
                 Node("ImportDeclaration", "react", <<>>, <<>>) }

Elements ==
    { IfNode(a) : a \in AttrLists } \cup { ElseNode, DivNode, DivJsxNode, FragmentNode }

\* Inputs of up to MaxNodes nodes are built of the plain nodes; an input of
\* up to MaxAttrNodes nodes may hold one node that is not plain (an <If> with
\* any attribute list, a fragment, an element with JSX in an attribute).
PlainNodes ==
    { IfNode(<<PlainCondition>>), ElseNode, DivNode } \cup TextNodes \cup ImportNodes

RECURSIVE Spine(_, _)
Spine(t, i) == IF i = 0 THEN {0} ELSE {i} \cup Spine(t, t.parent[i])

\* The nodes the grammar allows next, in pre-order, below parent p: JSX in
\* an attribute comes right after its element; imports are statements; text
\* is a child of an element or a fragment.
Labels(t, p, elements) ==
    LET n == Len(t.nodes) IN
    IF n > 0 /\ HasJsx(t.nodes[n])
    THEN IF p = n THEN elements ELSE {}
    ELSE IF p = 0 THEN elements \cup ImportNodes
    ELSE IF t.nodes[p].kind \in jsxParents THEN elements \cup TextNodes
    ELSE {}

PlainElements == Elements \cap PlainNodes

\* The same, within the bounds of the input space.
Allowed(t, p) ==
    LET n == Len(t.nodes)
        odd == \E i \in 1..n : t.nodes[i] \notin PlainNodes
    IN  IF odd
        THEN IF n < MaxAttrNodes THEN Labels(t, p, PlainElements) ELSE {}
        ELSE IF n < MaxAttrNodes THEN Labels(t, p, Elements)
        ELSE IF n < MaxNodes THEN Labels(t, p, PlainElements)
        ELSE {}

EmptyTree == [nodes |-> <<>>, parent |-> <<>>]

Complete(t) == IF t.nodes = <<>> THEN TRUE ELSE ~HasJsx(t.nodes[Len(t.nodes)])

(***************************************************************************)
(* Navigation in the parsed tree.                                          *)
(***************************************************************************)
Ids == 1..Len(tree.nodes)

\* Node k is the expression of an attribute of its parent (attr={<k/>}).
IsAttrChild(k) ==
    /\ tree.parent[k] # 0
    /\ k = tree.parent[k] + 1
    /\ HasJsx(tree.nodes[tree.parent[k]])

RECURSIVE SeqOfSet(_)
SeqOfSet(S) ==
    IF S = {} THEN <<>>
    ELSE LET m == CHOOSE x \in S : \A y \in S : x <= y
         IN  <<m>> \o SeqOfSet(S \ {m})

\* Every syntax child of p, in source order (ts.visitEachChild's order).
AstChildren(p) == SeqOfSet({k \in Ids : tree.parent[k] = p})

\* JsxElement.children / JsxFragment.children
JsxChildrenOf(p) == SeqOfSet({k \in Ids : tree.parent[k] = p /\ ~IsAttrChild(k)})

\* node.parent.kind
ParentKind(k) ==
    IF tree.parent[k] = 0 THEN "ExpressionStatement"
    ELSE IF IsAttrChild(k) THEN "JsxExpression"
    ELSE tree.nodes[tree.parent[k]].kind

RECURSIVE Concat(_)
Concat(ss) == IF ss = <<>> THEN <<>> ELSE Head(ss) \o Concat(Tail(ss))

(***************************************************************************)
(* Node Classifier.                                                        *)
(***************************************************************************)
isIfNode_SelfClosing(nd) == nd.kind = "JsxSelfClosingElement" /\ nd.name = "If"

isIfNode(nd) == nd.kind = "JsxElement" /\ nd.name = "If"

isElseNode(nd) == nd.kind = "JsxElement" /\ nd.name = "Else"

WhiteSpace == {" ", "\n", "\t"}

RECURSIVE TrimStart(_)
TrimStart(s) ==
    IF s # <<>> /\ Head(s) \in WhiteSpace THEN TrimStart(Tail(s)) ELSE s

RECURSIVE TrimEnd(_)
TrimEnd(s) ==
    IF s # <<>> /\ s[Len(s)] \in WhiteSpace
    THEN TrimEnd(SubSeq(s, 1, Len(s) - 1)) ELSE s

\* String.prototype.trim
Trim(s) == TrimEnd(TrimStart(s))

isEmptyTextNode(nd) == nd.kind = "JsxText" /\ Len(Trim(nd.text)) = 0

isLibraryImport_AnyModule(nd) == nd.kind = "ImportDeclaration"

\* Lines 11-13: an import declaration of 'jsx-conditionals'.
isLibraryImport(nd) == nd.kind = "ImportDeclaration" /\ nd.name = "jsx-conditionals"

(***************************************************************************)
(* Results of the helpers that may throw.                                  *)
(***************************************************************************)
Ok(v) == [ok |-> TRUE, val |-> v, msg |-> <<>>]
Throws(m) == [ok |-> FALSE, val |-> <<>>, msg |-> m]

MissingCondition == <<"Missing 'condition' property">>
MalformedCondition(k) ==
    <<"'condition' property should be type JsxExpression, found ", k>>
UndefinedInitializer ==
    <<"TypeError: Cannot read properties of undefined (reading 'kind')">>
OrphanedElse ==
    <<"<Else> has no matching <If>. Only whitespace is allowed between them.">>
TopLevelElse ==
    <<"<Else> is used a top-level node and has no associated <If> condition">>
ParentLacksIf == <<"Inexplicable error - <If>s parent does not contain it">>
WrongChildCount == <<" children, expected ", "3">>
NoSyntaxList == <<"to contain SyntaxList, found ">>
UnexpectedTypes == <<"Unexpected type(s) in syntax list: ">>
NoRealPosition ==
    <<"Debug Failure. Node must have a real position for this operation">>

(***************************************************************************)
(* Condition Extractor.                                                    *)
(***************************************************************************)
\* attributes.forEachChild(cb): cb never returns a truthy value, so every
\* attribute is offered to it, and each match overwrites conditionAttr.
RECURSIVE ForEachAttr(_, _)
ForEachAttr(attrs, conditionAttr) ==
    IF attrs = <<>> THEN conditionAttr
    ELSE ForEachAttr(Tail(attrs),
                     IF Head(attrs).name = "condition"
                     THEN <<Head(attrs)>> ELSE conditionAttr)

getConditionExpression(nd) ==
    LET conditionAttr == ForEachAttr(nd.attrs, <<>>) IN
    IF conditionAttr = <<>> THEN Throws(MissingCondition)
    ELSE LET initializer == conditionAttr[1].init IN
         IF initializer = "undefined" THEN Throws(UndefinedInitializer)
         ELSE IF initializer # "JsxExpression"
         THEN Throws(MalformedCondition(initializer))
         ELSE Ok(conditionAttr[1].expr)

(***************************************************************************)
(* Child-List Extractor.                                                   *)
(***************************************************************************)
Part(k, l) == [kind |-> k, list |-> l]

\* Node.getChildren() of a parsed JsxElement or JsxFragment
getChildren(p) ==
    IF tree.nodes[p].kind = "JsxElement"
    THEN << Part("JsxOpeningElement", <<>>), Part("SyntaxList", JsxChildrenOf(p)),
            Part("JsxClosingElement", <<>>) >>
    ELSE << Part("JsxOpeningFragment", <<>>), Part("SyntaxList", JsxChildrenOf(p)),
            Part("JsxClosingFragment", <<>>) >>

expectedNumChildren == 3

expectedTypes ==
    {"JsxText", "JsxExpression", "JsxElement", "JsxSelfClosingElement", "JsxFragment"}

getJsxChildren(p) ==
    LET children == getChildren(p) IN
    IF Len(children) # expectedNumChildren THEN Throws(WrongChildCount)
    ELSE LET syntaxList == children[2] IN
         IF syntaxList.kind # "SyntaxList" THEN Throws(NoSyntaxList)
         ELSE IF \E i \in 1..Len(syntaxList.list) :
                    tree.nodes[syntaxList.list[i]].kind \notin expectedTypes
         THEN Throws(UnexpectedTypes)
         ELSE Ok(syntaxList.list)

(***************************************************************************)
(* Branch Synthesizer.                                                     *)
(***************************************************************************)
\* The while loop of getElseBody, from siblingIdx (1-based here).
RECURSIVE ElseWalk(_, _)
ElseWalk(ifSiblingNodes, siblingIdx) ==
    IF siblingIdx > Len(ifSiblingNodes) THEN Ok(<<>>)
    ELSE LET sibling == ifSiblingNodes[siblingIdx] IN
         IF isEmptyTextNode(tree.nodes[sibling])
         THEN ElseWalk(ifSiblingNodes, siblingIdx + 1)
         ELSE IF isElseNode(tree.nodes[sibling]) THEN getJsxChildren(sibling)
         ELSE Ok(<<>>)

getElseBody_IfNotSkipped(ifParentElem, ifElem) ==
    LET r == getJsxChildren(ifParentElem) IN
    IF ~r.ok THEN r
    ELSE LET ifSiblingNodes == r.val
             found == {i \in 1..Len(ifSiblingNodes) : ifSiblingNodes[i] = ifElem}
         IN  IF found = {} THEN Throws(ParentLacksIf)
             ELSE ElseWalk(ifSiblingNodes,
                           CHOOSE i \in found : \A k \in found : i <= k)

getElseBody(ifParentElem, ifElem) ==
    LET r == getJsxChildren(ifParentElem) IN
    IF ~r.ok THEN r
    ELSE LET ifSiblingNodes == r.val
             found == {i \in 1..Len(ifSiblingNodes) : ifSiblingNodes[i] = ifElem}
         IN  IF found = {} THEN Throws(ParentLacksIf)
             ELSE ElseWalk(ifSiblingNodes,
                           (CHOOSE i \in found : \A k \in found : i <= k) + 1)

\* The expression after the colon: a fragment of the <Else> children, or null.
Synth(k, l) == [kind |-> k, kids |-> l]

createWhenFalseExpression_AlwaysFragment(ifElem) ==
    IF ParentKind(ifElem) \in jsxParents
    THEN LET elseChildren == getElseBody(tree.parent[ifElem], ifElem) IN
         IF ~elseChildren.ok THEN elseChildren
         ELSE Ok(Synth("JsxFragment", elseChildren.val))
    ELSE Ok(Synth("JsxFragment", <<>>))

createWhenFalseExpression(ifElem) ==
    IF ParentKind(ifElem) \in jsxParents
    THEN LET elseChildren == getElseBody(tree.parent[ifElem], ifElem) IN
         IF ~elseChildren.ok THEN elseChildren
         ELSE IF Len(elseChildren.val) > 0
         THEN Ok(Synth("JsxFragment", elseChildren.val))
         ELSE Ok(Synth("NullKeyword", <<>>))
    ELSE Ok(Synth("NullKeyword", <<>>))

createWhenTrueExpression(ifElem) ==
    LET children == getJsxChildren(ifElem) IN
    IF ~children.ok THEN children ELSE Ok(Synth("JsxFragment", children.val))

(***************************************************************************)
(* Output nodes.  orig is the parsed node an output node stands for: the   *)
(* node itself when ts.visitEachChild updates it, the <If> for a fragment  *)
(* made by createJsxOpeningFragment (ts.setOriginalNode), 0 otherwise.     *)
(***************************************************************************)
Out(k, n, x, o, a, c) ==
    [kind |-> k, name |-> n, text |-> x, orig |-> o, attrs |-> a, kids |-> c]

Identifier(e) == Out("Identifier", e, <<>>, 0, <<>>, <<>>)
NullLiteral == Out("NullKeyword", "", <<>>, 0, <<>>, <<>>)
Fragment(o, c) == Out("JsxFragment", "", <<>>, o, <<>>, c)
Conditional(c, t, f) ==
    Out("JsxExpression", "", <<>>, 0, <<>>,
        << Out("ConditionalExpression", "", <<>>, 0, <<>>, <<c, t, f>>) >>)

(***************************************************************************)
(* Visitor frames.  A frame is one call of `visitor`, on a parsed node     *)
(* (syn = "") or on a fragment made for <If> number `node` (syn =          *)
(* "whenTrue", "whenFalse"); the bottom frame (syn = "sourceFile") is the  *)
(* call ts.visitEachChild(sourceFile, visitor, ctx).                       *)
(***************************************************************************)
Target(n, s, c) == [node |-> n, syn |-> s, kids |-> c]

NoPlan == [how |-> "update", cond |-> "", whenFalse |-> "NullKeyword"]

Frame(tg, pc) ==
    [node |-> tg.node, syn |-> tg.syn, kids |-> tg.kids, pc |-> pc,
     i |-> 1, j |-> 0, todo |-> <<>>, res |-> <<>>, plan |-> NoPlan]

Top == stack[Len(stack)]

Synthesized(f) == f.syn \in {"whenTrue", "whenFalse"}

KindOf(f) == IF Synthesized(f) THEN "JsxFragment" ELSE tree.nodes[f.node].kind

\* jsxParent.children
ChildrenOf(f) == IF Synthesized(f) THEN f.kids ELSE JsxChildrenOf(f.node)

\* Lines 10-41 of visitor are inside try; so is the ts.visitEachChild call
\* of the <If> branch (line 20), but not the one of line 48.
InTry(f) ==
    /\ f.syn # "sourceFile"
    /\ f.pc = "children" => f.plan.how = "rewrite"

Replace(f) == [stack EXCEPT ![Len(stack)] = f]

Targets(ids) == [i \in 1..Len(ids) |-> Target(ids[i], "", <<>>)]

\* The node a frame returns once its children have been visited.
Built(f) ==
    IF f.plan.how = "rewrite"
    THEN LET c == IF f.plan.cond = "jsx" THEN f.res[1][1] ELSE Identifier(f.plan.cond)
             r == IF f.plan.cond = "jsx" THEN Tail(f.res) ELSE f.res
             t == r[1][1]
             e == IF f.plan.whenFalse = "JsxFragment" THEN r[2][1] ELSE NullLiteral
         IN  <<Conditional(c, t, e)>>
    ELSE IF Synthesized(f) THEN <<Fragment(f.node, Concat(f.res))>>
    ELSE LET nd == tree.nodes[f.node]
         IN  <<Out(nd.kind, nd.name, nd.text, f.node, nd.attrs, Concat(f.res))>>

(***************************************************************************)
(* Control transfers shared by the actions.                                *)
(***************************************************************************)
\* `return v` from the top frame: the caller stores v and moves on.
Return(v) ==
    LET f == Top
        below == SubSeq(stack, 1, Len(stack) - 1)
        caller == below[Len(below)]
    IN  /\ stack' = [below EXCEPT ![Len(below)] =
                        [caller EXCEPT !.res = Append(@, v), !.i = @ + 1]]
        /\ returned' = IF f.syn = "" THEN (f.node :> v) @@ returned ELSE returned
        /\ UNCHANGED <<tree, status, err, output, pass, first>>

\* `throw new Error(m)` inside the top frame.
Throw(m) ==
    /\ status' = "unwinding"
    /\ err' = [message |-> m, notes |-> <<>>]
    /\ UNCHANGED <<tree, stack, returned, output, pass, first>>

(***************************************************************************)
(* Actions.                                                                *)
(***************************************************************************)
Init == /\ tree = EmptyTree
        /\ stack = <<>>
        /\ status = "parsing"
        /\ err = [message |-> <<>>, notes |-> <<>>]
        /\ returned = <<>>
        /\ output = <<>>
        /\ pass = 1
        /\ first = <<>>

\* The host parser appends one node, in pre-order.
ParseNode ==
    /\ status = "parsing"
    /\ \E p \in Spine(tree, Len(tree.nodes)) : \E nd \in Allowed(tree, p) :
          tree' = [nodes |-> Append(tree.nodes, nd), parent |-> Append(tree.parent, p)]
    /\ UNCHANGED <<stack, status, err, returned, output, pass, first>>

\* Line 50: ts.visitEachChild(sourceFile, visitor, ctx).
Transform ==
    /\ status = "parsing"
    /\ Complete(tree)
    /\ status' = "running"
    /\ stack' = << [Frame(Target(0, "sourceFile", <<>>), "children")
                      EXCEPT !.todo = Targets(AstChildren(0))] >>
    /\ UNCHANGED <<tree, err, returned, output, pass, first>>

\* The output of a pass, printed and parsed again: the same nodes, flat.
RECURSIVE Reparsed(_, _, _)
Reparsed(t, outs, p) ==
    IF outs = <<>> THEN t
    ELSE LET o == Head(outs)
             t1 == [nodes |-> Append(t.nodes, Node(o.kind, o.name, o.text, o.attrs)),
                    parent |-> Append(t.parent, p)]
         IN  Reparsed(Reparsed(t1, o.kids, Len(t1.nodes)), Tail(outs), p)

\* The host runs the transformer once more, on the output of the first pass.
SecondPass ==
    /\ status = "done"
    /\ pass = 1
    /\ pass' = 2
    /\ first' = output
    /\ tree' = Reparsed(EmptyTree, output, 0)
    /\ status' = "running"
    /\ stack' = << [Frame(Target(0, "sourceFile", <<>>), "children")
                      EXCEPT !.todo = Targets(SeqOfSet({k \in 1..Len(tree'.nodes) :
                                                          tree'.parent[k] = 0}))] >>
    /\ returned' = <<>>
    /\ output' = <<>>
    /\ UNCHANGED err

\* children.forEach of checkForOrphanedElse (lines 56-57, 72): its callback
\* does nothing on a child that is no <Else>, so the frame goes to the first
\* <Else> at or after child `from` and starts the walk there (line 59), or
\* leaves checkForOrphanedElse when there is none.
NextElse_SkipFirst(children, from) ==
    LET S == {k \in (from + 1)..Len(children) : isElseNode(tree.nodes[children[k]])}
    IN  IF S = {} THEN 0 ELSE CHOOSE k \in S : \A m \in S : k <= m

NextElse(children, from) ==
    LET S == {k \in from..Len(children) : isElseNode(tree.nodes[children[k]])}
    IN  IF S = {} THEN 0 ELSE CHOOSE k \in S : \A m \in S : k <= m

ForEachFrom(f, from) ==
    LET e == NextElse(ChildrenOf(f), from) IN
    IF e = 0 THEN [f EXCEPT !.pc = "dispatch"]
    ELSE [f EXCEPT !.pc = "walk", !.i = e, !.j = e - 1]

\* ts.visitEachChild calls visitor on the next child: lines 9-17.
Visitor ==
    /\ status = "running"
    /\ Top.pc = "children"
    /\ Top.i <= Len(Top.todo)
    /\ LET tg == Top.todo[Top.i]
           f == Frame(tg, "dispatch")
       IN  IF ~Synthesized(f) /\ isLibraryImport(tree.nodes[tg.node])
           THEN /\ stack' = Replace([Top EXCEPT !.res = Append(@, <<>>), !.i = @ + 1])
                /\ returned' = (tg.node :> <<>>) @@ returned
           ELSE /\ stack' = Append(stack, IF KindOf(f) \in jsxParents
                                          THEN ForEachFrom(f, 1) ELSE f)
                /\ returned' = returned
    /\ UNCHANGED <<tree, status, err, output, pass, first>>

\* Lines 60-70: one turn of the backward walk (currIdx is j - 1).
WalkBack ==
    /\ status = "running"
    /\ Top.pc = "walk"
    /\ IF Top.j < 1 THEN Throw(OrphanedElse)
       ELSE LET sibling == tree.nodes[ChildrenOf(Top)[Top.j]] IN
            IF isEmptyTextNode(sibling)
            THEN /\ stack' = Replace([Top EXCEPT !.j = @ - 1])
                 /\ UNCHANGED <<tree, status, err, returned, output, pass, first>>
            ELSE IF isIfNode(sibling)
            THEN /\ stack' = Replace(ForEachFrom(Top, Top.i + 1))
                 /\ UNCHANGED <<tree, status, err, returned, output, pass, first>>
            ELSE UNCHANGED vars   \* neither branch: the loop runs again, currIdx unchanged

\* Lines 18-40 and 48: the <If> rewrite, the <Else> removal, or the plain descent.
Dispatch ==
    /\ status = "running"
    /\ Top.pc = "dispatch"
    /\ LET n == Top.node IN
       IF ~Synthesized(Top) /\ isIfNode(tree.nodes[n])
       THEN LET c == getConditionExpression(tree.nodes[n])
                t == createWhenTrueExpression(n)
                f == createWhenFalseExpression(n)
            IN  IF ~c.ok THEN Throw(c.msg)
                ELSE IF ~t.ok THEN Throw(t.msg)
                ELSE IF ~f.ok THEN Throw(f.msg)
                ELSE /\ stack' = Replace(
                          [Top EXCEPT
                             !.pc = "children",
                             !.i = 1,
                             !.plan = [how |-> "rewrite", cond |-> c.val,
                                       whenFalse |-> f.val.kind],
                             !.todo =
                                 (IF c.val = "jsx" THEN <<Target(n + 1, "", <<>>)>>
                                  ELSE <<>>)
                                 \o <<Target(n, "whenTrue", t.val.kids)>>
                                 \o (IF f.val.kind = "JsxFragment"
                                     THEN <<Target(n, "whenFalse", f.val.kids)>>
                                     ELSE <<>>)])
                     /\ UNCHANGED <<tree, status, err, returned, output, pass, first>>
       ELSE IF ~Synthesized(Top) /\ isElseNode(tree.nodes[n])
       THEN IF ParentKind(n) \notin jsxParents THEN Throw(TopLevelElse)
            ELSE Return(<<>>)
       ELSE LET todo == IF Synthesized(Top) THEN Targets(Top.kids)
                        ELSE Targets(AstChildren(n))
            IN  IF todo = <<>> THEN Return(Built(Top))
                ELSE /\ stack' = Replace([Top EXCEPT !.pc = "children", !.i = 1,
                                                      !.todo = todo])
                     /\ UNCHANGED <<tree, status, err, returned, output, pass, first>>

\* ts.visitEachChild has visited every child: it returns the node (lines 20,
\* 48), or the source file (line 50).
VisitEachChild ==
    /\ status = "running"
    /\ Top.pc = "children"
    /\ Top.i > Len(Top.todo)
    /\ IF Top.syn = "sourceFile"
       THEN /\ status' = "done"
            /\ output' = Concat(Top.res)
            /\ stack' = <<>>
            /\ UNCHANGED <<tree, err, returned, pass, first>>
       ELSE Return(Built(Top))

\* Lines 42-47: the error leaves the top frame, whose catch clause (if the
\* throw happened inside its try) appends file name and node.getText().
\* getText() of a node made by the factory has no source position to read:
\* the library either returns a text or fails with an error of its own.
Unwind ==
    /\ status = "unwinding"
    /\ LET f == Top
           below == SubSeq(stack, 1, Len(stack) - 1)
           annotated == [err EXCEPT !.notes = Append(@, [node |-> f.node, syn |-> f.syn])]
       IN  /\ \E e \in IF ~InTry(f) THEN {err}
                       ELSE IF Synthesized(f)
                       THEN {annotated, [message |-> NoRealPosition, notes |-> <<>>]}
                       ELSE {annotated} :
                 err' = e
           /\ stack' = below
           /\ status' = IF below = <<>> THEN "error" ELSE "unwinding"
    /\ UNCHANGED <<tree, returned, output, pass, first>>

Next ==
    \/ ParseNode
    \/ Transform
    \/ SecondPass
    \/ Visitor
    \/ WalkBack
    \/ Dispatch
    \/ VisitEachChild
    \/ Unwind

Spec == Init /\ [][Next]_vars

Finished == status = "error" \/ (status = "done" /\ pass = 2)

(***************************************************************************)
(* Vocabulary of the properties, stated on the parsed tree alone.          *)
(***************************************************************************)
IfElem(n) == tree.nodes[n].kind = "JsxElement" /\ tree.nodes[n].name = "If"

ElseElem(n) == tree.nodes[n].kind = "JsxElement" /\ tree.nodes[n].name = "Else"

WhitespaceOnly(n) ==
    /\ tree.nodes[n].kind = "JsxText"
    /\ \A i \in 1..Len(tree.nodes[n].text) : tree.nodes[n].text[i] \in WhiteSpace

\* n is a child (not an attribute value) of an element or a fragment.
HasMarkupParent(n) ==
    /\ tree.parent[n] # 0
    /\ ~IsAttrChild(n)
    /\ tree.nodes[tree.parent[n]].kind \in {"JsxElement", "JsxFragment"}

Body(n) == JsxChildrenOf(n)

\* The children of n's parent before n (side = "before") or after n.
Beside(n, side) ==
    { k \in Ids : /\ tree.parent[k] = tree.parent[n]
                  /\ ~IsAttrChild(k)
                  /\ IF side = "before" THEN k < n ELSE k > n }

\* The nearest sibling on that side that is not whitespace-only text, or 0.
NearestSibling(n, side) ==
    LET S == {k \in Beside(n, side) : ~WhitespaceOnly(k)} IN
    IF S = {} THEN 0
    ELSE IF side = "before" THEN CHOOSE k \in S : \A m \in S : m <= k
    ELSE CHOOSE k \in S : \A m \in S : k <= m

\* The <Else> that belongs to <If> n, or 0.
MatchingElse(n) ==
    IF ~HasMarkupParent(n) THEN 0
    ELSE LET k == NearestSibling(n, "after") IN
         IF k # 0 /\ ElseElem(k) THEN k ELSE 0

ConditionAttrs(n) ==
    {i \in 1..Len(tree.nodes[n].attrs) : tree.nodes[n].attrs[i].name = "condition"}

FirstCondition(n) ==
    tree.nodes[n].attrs[CHOOSE i \in ConditionAttrs(n) : \A k \in ConditionAttrs(n) : i <= k]

\* A valid <If>: one condition attribute, holding an expression container.
ValidIf(n) ==
    /\ IfElem(n)
    /\ Cardinality(ConditionAttrs(n)) = 1
    /\ FirstCondition(n).init = "JsxExpression"

Visited(n) == n \in DOMAIN returned

\* The condition expression C of a valid <If>, as it stands in the output.
ConditionOut(n) ==
    IF FirstCondition(n).expr = "jsx" THEN returned[n + 1][1]
    ELSE Identifier(FirstCondition(n).expr)

\* What the pass made of a list of parsed nodes, in order; a node the visitor
\* has not returned from stands for itself, which is no output node.
OutOf(ids) ==
    Concat([i \in 1..Len(ids) |->
               IF Visited(ids[i]) THEN returned[ids[i]] ELSE << ids[i] >>])

WhenFalseOf(n) == returned[n][1].kids[1].kids[3]

\* The visitor of an <If> has just thrown / has built its replacement.
IfFrame == stack # <<>> /\ Top.syn = "" /\ Top.node # 0 /\ IfElem(Top.node)
ThrownByIf == IfFrame /\ status = "unwinding" /\ Top.pc = "dispatch" /\ err.notes = <<>>
BuiltByIf == IfFrame /\ status = "running" /\ Top.pc = "children"

RECURSIVE HasIfOrElse(_)
HasIfOrElse(outs) ==
    \E i \in 1..Len(outs) :
        \/ outs[i].kind = "JsxElement" /\ outs[i].name \in {"If", "Else"}
        \/ HasIfOrElse(outs[i].kids)

RECURSIVE Shape(_)
Shape(outs) == [i \in 1..Len(outs) |-> [outs[i] EXCEPT !.orig = 0, !.kids = Shape(@)]]

RECURSIVE Occurrences(_, _)
Occurrences(outs, x) ==
    IF outs = <<>> THEN 0
    ELSE (IF Head(outs) = x THEN 1 ELSE 0) + Occurrences(Head(outs).kids, x)
         + Occurrences(Tail(outs), x)

(***************************************************************************)
(* C1.  An <If> with a matching <Else> (the next sibling once whitespace-  *)
(* only text is skipped) is replaced by {C ? <>A</> : <>B</>}.             *)
(***************************************************************************)
\* C1 as claimed: the when-false branch is a fragment of B for every B,
\* also for an <Else> without children.
C1_ElseAlwaysFragment ==
    \A n \in Ids :
        (Visited(n) /\ ValidIf(n) /\ MatchingElse(n) # 0) =>
            returned[n] = << Conditional(ConditionOut(n),
                                         Fragment(n, OutOf(Body(n))),
                                         Fragment(n, OutOf(Body(MatchingElse(n))))) >>

\* C1, amended: the when-false branch is a fragment of B when the <Else> has
\* children, and the null literal when it has none.
C1_IfElseRewritten ==
    \A n \in Ids :
        (Visited(n) /\ ValidIf(n) /\ MatchingElse(n) # 0) =>
            returned[n] = << Conditional(ConditionOut(n),
                                         Fragment(n, OutOf(Body(n))),
                                         IF Body(MatchingElse(n)) # <<>>
                                         THEN Fragment(n, OutOf(Body(MatchingElse(n))))
                                         ELSE NullLiteral) >>

\* An <If> with an <Else> that has children has been rewritten.
C1_Witness ==
    /\ status = "done"
    /\ pass = 1
    /\ \E n \in Ids : /\ Visited(n) /\ ValidIf(n) /\ MatchingElse(n) # 0
                      /\ Body(MatchingElse(n)) # <<>>

(***************************************************************************)
(* C2.  An <If> without matching <Else> is replaced by {C ? <>A</> : null}:*)
(* the when-true branch is always a fragment of A.                         *)
(***************************************************************************)
C2_IfAloneRewritten ==
    \A n \in Ids :
        (Visited(n) /\ ValidIf(n) /\ MatchingElse(n) = 0) =>
            returned[n] = << Conditional(ConditionOut(n),
                                         Fragment(n, OutOf(Body(n))),
                                         NullLiteral) >>

\* An <If> with one child, followed by a sibling that is no <Else>, has been
\* rewritten.
C2_Witness ==
    /\ status = "done"
    /\ pass = 1
    /\ \E n \in Ids : /\ Visited(n) /\ ValidIf(n) /\ HasMarkupParent(n)
                      /\ NearestSibling(n, "after") # 0 /\ MatchingElse(n) = 0
                      /\ Len(Body(n)) = 1

(***************************************************************************)
(* C3.  An <Else> among the children of a visited markup-parent whose      *)
(* nearest preceding non-whitespace sibling is not an <If> makes the       *)
(* transform raise the orphaned-Else error.                                *)
(***************************************************************************)
\* The validator stands at the sibling that decides the walk from an <Else>
\* (or has run out of siblings), and that sibling is not an <If>.
AtOrphanedElse ==
    /\ status = "running"
    /\ Top.pc = "walk"
    /\ \/ Top.j < 1
       \/ LET k == ChildrenOf(Top)[Top.j] IN ~WhitespaceOnly(k) /\ ~IfElem(k)

\* C3 as claimed: from there the validator raises the orphaned-Else error.
C3_OrphanedElseRaises ==
    AtOrphanedElse =>
        ENABLED <<Next /\ status' = "unwinding" /\ err'.message = OrphanedElse>>_vars

(***************************************************************************)
(* C4.  One invocation of the transform finishes: it returns an output     *)
(* tree or raises an error.                                                *)
(***************************************************************************)
\* C4 as claimed: a transform that has not finished can always take a step
\* that changes its state.
C4_TransformProgresses ==
    status \in {"running", "unwinding"} => ENABLED <<Next>>_vars

(***************************************************************************)
(* C5.  After a transform without error the output holds no <If> and no    *)
(* <Else> at any depth, and a second pass over it changes nothing.         *)
(***************************************************************************)
C5_NoIfElseLeft ==
    /\ status = "done" => ~HasIfOrElse(output)
    /\ pass = 2 => /\ status \in {"running", "done"}
                   /\ status = "running" => Top.pc # "walk"
                   /\ status = "done" => Shape(output) = Shape(first)

\* Both passes are over, and the first rewrote an <If> nested in a branch.
C5_Witness ==
    /\ status = "done"
    /\ pass = 2
    /\ \E k \in 1..Len(first) :
          /\ first[k].kind = "JsxExpression"
          /\ \E b \in 2..3 : \E c \in 1..Len(first[k].kids[1].kids[b].kids) :
                first[k].kids[1].kids[b].kids[c].kind = "JsxExpression"

(***************************************************************************)
(* C6.  Condition extraction has three outcomes: the missing-condition     *)
(* error, the malformed-condition-value error naming the kind found (for a *)
(* string literal, or for no value at all), or the expression inside the   *)
(* container.                                                              *)
(***************************************************************************)
\* C6 as claimed, for an <If> with at most one attribute named condition.
C6_ThreeOutcomes ==
    (IfFrame /\ Cardinality(ConditionAttrs(Top.node)) <= 1) =>
        LET n == Top.node IN
        /\ ThrownByIf =>
              IF ConditionAttrs(n) = {} THEN err.message = MissingCondition
              ELSE /\ FirstCondition(n).init # "JsxExpression"
                   /\ err.message = MalformedCondition(FirstCondition(n).init)
        /\ BuiltByIf =>
              /\ ConditionAttrs(n) # {}
              /\ FirstCondition(n).init = "JsxExpression"
              /\ Top.plan.cond = FirstCondition(n).expr

(***************************************************************************)
(* C8.  Of several attributes named condition the first one is used, also  *)
(* to decide whether the condition value is malformed.                     *)
(***************************************************************************)
\* C8 as claimed.
C8_FirstConditionUsed ==
    (IfFrame /\ Cardinality(ConditionAttrs(Top.node)) > 1) =>
        LET n == Top.node IN
        /\ ThrownByIf => FirstCondition(n).init # "JsxExpression"
        /\ BuiltByIf => /\ FirstCondition(n).init = "JsxExpression"
                        /\ Top.plan.cond = FirstCondition(n).expr

(***************************************************************************)
(* C9.  An error that reaches the caller has been annotated exactly once   *)
(* with file name and node text, at any nesting depth.                     *)
(***************************************************************************)
\* C9 as claimed.
C9_AnnotatedOnce == status = "error" => Len(err.notes) = 1

(***************************************************************************)
(* C7.  A transform without error keeps every node but the <If>s (each     *)
(* replaced by its conditional), the <Else>s and the imports of            *)
(* 'jsx-conditionals' (removed), in the original order and position.       *)
(***************************************************************************)
KeptAsIs(n) ==
    LET nd == tree.nodes[n] IN
    returned[n] = << Out(nd.kind, nd.name, nd.text, n, nd.attrs, OutOf(AstChildren(n))) >>

C7_OnlyIfElseImportChange ==
    /\ \A n \in Ids :
          Visited(n) =>
              IF IfElem(n)
              THEN /\ Len(returned[n]) = 1
                   /\ returned[n][1].kind = "JsxExpression"
                   /\ returned[n][1].kids[1].kind = "ConditionalExpression"
              ELSE IF ElseElem(n) THEN returned[n] = <<>>
              ELSE IF /\ tree.nodes[n].kind = "ImportDeclaration"
                      /\ tree.nodes[n].name = "jsx-conditionals"
              THEN returned[n] = <<>>
              ELSE KeptAsIs(n)
    /\ status = "done" =>
          /\ \A n \in Ids : tree.parent[n] = 0 => Visited(n)
          /\ output = OutOf(AstChildren(0))

\* A transform is over that met both kinds of import and a JSX element.
C7_Witness ==
    /\ status = "done"
    /\ pass = 1
    /\ \E n, m, k \in Ids :
          /\ tree.nodes[n].kind = "ImportDeclaration" /\ returned[n] = <<>>
          /\ tree.nodes[m].kind = "ImportDeclaration" /\ returned[m] # <<>>
          /\ tree.nodes[k].kind = "JsxElement" /\ Visited(k)

(***************************************************************************)
(* C10.  Validator and consumer agree: every <Else> the driver deletes     *)
(* follows an <If> (whitespace aside), its body is the when-false branch   *)
(* of that <If> and of no other, nothing of it is lost or doubled; the     *)
(* internal-consistency error is never raised.                             *)
(***************************************************************************)
C10_ElseConsumedOnce ==
    /\ err.message # ParentLacksIf
    /\ status = "done" =>
          \A e \in Ids :
              (Visited(e) /\ ElseElem(e)) =>
                  LET i == NearestSibling(e, "before") IN
                  /\ i # 0
                  /\ IfElem(i)
                  /\ Visited(i)
                  /\ WhenFalseOf(i) = IF Body(e) # <<>> THEN Fragment(i, OutOf(Body(e)))
                                      ELSE NullLiteral
                  /\ \A k \in Ids :
                        (tree.parent[k] = e /\ returned[k] # <<>>) =>
                            Occurrences(output, returned[k][1]) = 1
                  /\ \A m \in Ids \ {i} :
                        (Visited(m) /\ IfElem(m) /\ Body(e) # <<>>) =>
                            WhenFalseOf(m).kids # OutOf(Body(e))

\* A transform is over that deleted an <Else> which does not come right after
\* the opening tag of its <If>: the <If> has children, or whitespace lies between.
C10_Witness ==
    /\ status = "done"
    /\ pass = 1
    /\ \E e \in Ids : /\ Visited(e) /\ ElseElem(e)
                      /\ NearestSibling(e, "before") # e - 1
====
